---- MODULE Spec2Model ----
(***************************************************************************)
(* Model of the macOS PTY multiline bug reproducers:                       *)
(*   - repro-node-pty.js        (main, testNodePty, STRATEGIES,            *)
(*                               buildEchoCommand)                         *)
(*   - vscode-extension/extension.js (runAllTests, runSingleTest,          *)
(*                               buildTest) driven by test-suite.js run()  *)
(* Strings are sequences of one-character strings.  The shell, the PTY and *)
(* the editor's terminal are the environment: their steps are separate     *)
(* actions.  The clock `now` is Date.now() in ms since the run started; it *)
(* advances when a settle, timeout, poll or between-tests timer fires.     *)
(***************************************************************************)
EXTENDS Integers, Sequences, FiniteSets, TLC

VARIABLES
  prog,           \* which reproducer runs: "pty" or "ext"
  now,            \* Date.now()
  marker,         \* marker of the test case in progress (characters)
  builtAt,        \* Date.now() at the call that built `marker`
  \* ---- repro-node-pty.js: main ----
  mpc,            \* "loop" | "await" | "exited"
  si,             \* index into strategies
  ni,             \* index into testSizes
  totalFailures,
  exitCode,       \* -1 while running
  anyFailed,      \* history: some test run did not return success
  \* ---- repro-node-pty.js: testNodePty closure ----
  numLines,
  strategyName,
  cmdBytes,
  startedAt,      \* time of the testNodePty call (timers are relative to it)
  output,         \* accumulated output, a sequence of tokens
  finished,
  timer,          \* timeout timer: "none" | "armed" | "fired" | "cleared"
  settle,         \* settle timer:  "none" | "armed" | "fired"
  wpc,            \* write strategy: "idle" | "sleep" | "done" | "failed"
  writeLens,      \* length of the data of each write the strategy makes
                  \* for cmd, in order (for line-by-line, of its `lines`)
  wi,             \* number of ptyProcess.write calls that returned
  ptyInput,       \* number of characters the PTY has received
  killCount,      \* calls of ptyProcess.kill()
  resolveCount,   \* calls of resolve()
  result,         \* value the promise resolved with
  firstEvent,     \* history: first of "marker" | "timer" | "writeError"
  executed,       \* the PTY's shell ran the command through its last echo
  \* ---- test-suite.js run() and extension.js runAllTests ----
  epc,            \* "iterate" | "settle" | "pollSleep" | "between" | "finished"
  sizeIdx,        \* index into runAllTests' testSizes
  iter,           \* i of the inner loop
  passed,
  failed,
  failures,
  results,
  summary,        \* content of vscode-test-results.json, or NoSummary
  runOutcome,     \* run()'s promise: "pending" | "resolved" | "rejected"
  \* ---- extension.js runSingleTest ----
  tmpFile,        \* test.tmpFile
  startTime,
  terminal,       \* "none" | "open" | "disposed"
  lastResult,
  \* ---- environment of the extension ----
  shell,          \* shell of the latest terminal: "none" | "ready" |
                  \* "running" | "counted" | "done" | "dead"
  file,           \* test.tmpFile on disk: "absent" | "partial" | "marked"
  markerInTime    \* history: the marker reached the file before the timeout

ptyVars == <<mpc, si, ni, totalFailures, exitCode, anyFailed, numLines,
             strategyName, cmdBytes, startedAt, output, finished, timer,
             settle, wpc, wi, ptyInput, killCount, resolveCount, result,
             firstEvent, executed, writeLens>>

extVars == <<epc, sizeIdx, iter, passed, failed, failures, results, summary,
             runOutcome, tmpFile, startTime, terminal, lastResult, shell, file,
             markerInTime>>

vars == <<prog, now, marker, builtAt, ptyVars, extVars>>

\* ------------------------------------------------------------------ bounds
MaxOut == 2      \* output tokens delivered to one session
MaxRnd == 1      \* distinct values of Math.random() in a run
EarlyWindows == 1 \* poll sleeps, counted from the first, in which the shell may act

\* --------------------------------------------------------------- constants
PTY_TIMEOUT_MS == 10000
PTY_SETTLE_MS == 500
CHUNK == 1024
SLEEP_LINE_MS == 5
SLEEP_CHUNK_MS == 10
lineLength == 50
EXT_SETTLE_MS == 2000
EXT_TIMEOUT_MS == 15000
BETWEEN_MS == 2000
POLL_MS == 300
iterations == 3

testSizes == <<18, 20, 25>>
strategies == <<"single-write", "line-by-line", "chunked-1024">>
extTestSizes == <<18, 20, 25, 30>>

NoResult == [success |-> FALSE, reason |-> "none", cmdBytes |-> 0]
NoMarker == <<>>
NoSummary == [failures |-> -1, results |-> <<>>]
NoFile == [numLines |-> 0, ts |-> -1]
NoTestResult == [success |-> FALSE, reason |-> "none"]

\* ------------------------------------------------------------ string tools
Min(a, b) == IF a < b THEN a ELSE b
Max(a, b) == IF a > b THEN a ELSE b

DigitChar(d) == <<"0", "1", "2", "3", "4", "5", "6", "7", "8", "9">>[d + 1]

RECURSIVE ToStr(_)
ToStr(n) == IF n < 10 THEN <<DigitChar(n)>>
            ELSE ToStr(n \div 10) \o <<DigitChar(n % 10)>>

PadStart(s, len, c) ==
  IF Len(s) >= len THEN s ELSE [i \in 1..(len - Len(s)) |-> c] \o s

Repeat(c, k) == [i \in 1..k |-> c]

RECURSIVE Join(_, _)
Join(parts, sep) ==
  IF Len(parts) = 0 THEN <<>>
  ELSE IF Len(parts) = 1 THEN parts[1]
  ELSE parts[1] \o sep \o Join(Tail(parts), sep)

\* s.slice(a, b) for 0 <= a: 0-based, end exclusive, clamped to the length
Slice(s, a, b) == SubSeq(s, a + 1, Min(b, Len(s)))

\* positions of the separator, and the k-th smallest of a set of positions
\* (0 before the first, past the end after the last)
SepPositions(s, sep) == {i \in 1..Len(s) : s[i] = sep}
KthOf(pos, k, end) ==
  IF k = 0 THEN 0
  ELSE IF k > Cardinality(pos) THEN end
  ELSE CHOOSE p \in pos : Cardinality({q \in pos : q <= p}) = k

\* the pieces of str between the separator positions pos
Pieces(str, pos) ==
  [k \in 1..(Cardinality(pos) + 1) |->
     SubSeq(str, KthOf(pos, k - 1, Len(str) + 1) + 1, KthOf(pos, k, Len(str) + 1) - 1)]

\* s.split(sep) for a one-character separator; the string and the separator
\* positions are each computed once
Split(s, sep) ==
  CHOOSE parts \in UNION {{Pieces(str, pos) : pos \in {SepPositions(str, sep)}}
                            : str \in {s}} : TRUE

RECURSIVE Concat(_)
Concat(parts) ==
  IF Len(parts) = 0 THEN <<>> ELSE parts[1] \o Concat(Tail(parts))

\* Math.random().toString(36).slice(2, 6), the r-th possible value
RandomSuffix(r) == <<"r", "n", "d", DigitChar(r)>>

\* ------------------------------------------------- buildEchoCommand
EchoLine(i, len) == <<"L">> \o PadStart(ToStr(i), 2, "0") \o <<" ">> \o Repeat("a", len)

EchoContent(n, len) == Join([i \in 1..n |-> EchoLine(i, len)], <<"\n">>)

\* the contents of main's test sizes, built once and looked up afterwards
Contents == [i \in 1..3 |-> EchoContent(<<18, 20, 25>>[i], 50)]
Content(n, len) ==
  IF len = 50 /\ n \in {18, 20, 25}
    THEN Contents[CHOOSE i \in 1..3 : <<18, 20, 25>>[i] = n]
    ELSE EchoContent(n, len)

PtyMarker(n, ts, r) ==
  <<"_", "_", "D", "O", "N", "E", "_">> \o ToStr(n) \o <<"_">> \o ToStr(ts)
    \o <<"_">> \o RandomSuffix(r) \o <<"_", "_">>

buildEchoCommand(n, len, ts, r) ==
  [cmd |-> <<"e", "c", "h", "o", " ", "'">> \o Content(n, len)
            \o <<"'", " ", "|", " ", "w", "c", " ", "-", "c", ";", " ",
                 "e", "c", "h", "o", " ">>
            \o PtyMarker(n, ts, r) \o <<"\n">>,
   marker |-> PtyMarker(n, ts, r)]

\* the command of the session in progress, rebuilt from its marker
Cmd ==
  <<"e", "c", "h", "o", " ", "'">> \o Content(numLines, lineLength)
    \o <<"'", " ", "|", " ", "w", "c", " ", "-", "c", ";", " ",
         "e", "c", "h", "o", " ">>
    \o marker \o <<"\n">>

\* ------------------------------------------------------------- STRATEGIES
\* number of ptyProcess.write calls a strategy makes for cmd
WriteCount(strategy, cmd) ==
  CASE strategy = "single-write" -> 1
    [] strategy = "line-by-line" -> Len(Split(cmd, "\n"))
    [] strategy = "chunked-1024" -> (Len(cmd) + CHUNK - 1) \div CHUNK

\* data passed to the k-th ptyProcess.write call
WriteData(strategy, cmd, k) ==
  CASE strategy = "single-write" -> cmd
    [] strategy = "line-by-line" -> Split(cmd, "\n")[k] \o <<"\n">>
    [] strategy = "chunked-1024" -> Slice(cmd, (k - 1) * CHUNK, (k - 1) * CHUNK + CHUNK)

\* the lengths of the data of the calls a strategy makes for cmd
WritePlan(strategy, cmd) ==
  [k \in 1..WriteCount(strategy, cmd) |-> Len(WriteData(strategy, cmd, k))]

\* everything written by the first k calls, in order
Written(strategy, cmd, k) ==
  Concat([j \in 1..k |-> WriteData(strategy, cmd, j)])

\* --------------------------------------------------------------- testNodePty
Includes(out, tok) == \E i \in 1..Len(out) : out[i] = tok

hasHeredocPrompt(out) == Includes(out, "heredoc>")
\* the token "quote>" stands for a `quote>` or a `dquote>` prompt: the
\* expression /(?:quote|dquote)>/ matches both
hasQuotePrompt(out) == Includes(out, "quote>")

TimeoutReason(out) ==
  IF hasHeredocPrompt(out) THEN "STUCK (heredoc>)"
  ELSE IF hasQuotePrompt(out) THEN "STUCK (quote>)"
  ELSE "TIMEOUT"

\* finish without its `if (finished) return` guard
finish_NoGuard(success, reason, tm) ==
  /\ finished' = TRUE
  /\ timer' = tm
  /\ killCount' = killCount + 1
  /\ resolveCount' = resolveCount + 1
  /\ result' = IF resolveCount = 0
                 THEN [success |-> success, reason |-> reason, cmdBytes |-> cmdBytes]
                 ELSE result

\* finish(success, reason); tm is the state the timeout timer is left in
\* after clearTimeout.  The result's `output` field (printed under --debug
\* only) is not kept: `output` itself stays in the state.
finish(success, reason, tm) ==
  IF finished
    THEN UNCHANGED <<finished, timer, killCount, resolveCount, result>>
    ELSE /\ finished' = TRUE
         /\ timer' = tm
         /\ killCount' = killCount + 1
         /\ resolveCount' = resolveCount + 1
         /\ result' = IF resolveCount = 0
                        THEN [success |-> success, reason |-> reason,
                              cmdBytes |-> cmdBytes]
                        ELSE result

NoteEvent(e) == firstEvent' = IF firstEvent = "none" THEN e ELSE firstEvent

\* a session exists from the testNodePty call until main's await returns
SessionExists == prog = "pty" /\ mpc = "await"

\* timers fire in deadline order: the sleep a strategy is in ends at
\* WakeDeadline, the timeout timer at TimeoutDeadline
SleepMs(strategy) == IF strategy = "line-by-line" THEN SLEEP_LINE_MS ELSE SLEEP_CHUNK_MS
WakeDeadline == startedAt + PTY_SETTLE_MS + wi * SleepMs(strategyName)
TimeoutDeadline == startedAt + PTY_TIMEOUT_MS

\* the PTY has received the whole marker (it ends right before the final "\n")
MarkerReceived == ptyInput >= cmdBytes - 1

\* ptyProcess.onData handler, one token of data.  The marker's text reaches
\* the output as the terminal's echo of the typed command, once the PTY has
\* received it, or as the output of the command's last echo.
OnData(tok) ==
  /\ SessionExists
  /\ Len(output) < MaxOut
  /\ tok = "marker" => (MarkerReceived \/ executed)
  /\ LET out == Append(output, tok) IN
       /\ output' = out
       /\ IF Includes(out, "marker")
            THEN finish(TRUE, "OK", "cleared") /\ NoteEvent("marker")
            ELSE UNCHANGED <<finished, timer, killCount, resolveCount, result, firstEvent>>
  /\ UNCHANGED <<prog, now, marker, builtAt, mpc, si, ni, totalFailures,
                 exitCode, anyFailed, numLines, strategyName, cmdBytes,
                 startedAt, settle, wpc, wi, ptyInput>>
  /\ UNCHANGED <<executed, writeLens>>
  /\ UNCHANGED extVars

\* a timeout callback that does not call finish
TimeoutFire_NoFinish ==
  /\ SessionExists
  /\ timer = "armed"
  /\ settle = "fired"
  /\ wpc = "sleep" => TimeoutDeadline < WakeDeadline
  /\ now' = Max(now, TimeoutDeadline)
  /\ timer' = "fired"
  /\ UNCHANGED <<finished, killCount, resolveCount, result, firstEvent>>
  /\ UNCHANGED <<prog, marker, builtAt, mpc, si, ni, totalFailures, exitCode,
                 anyFailed, numLines, strategyName, cmdBytes, startedAt,
                 output, settle, wpc, wi, ptyInput>>
  /\ UNCHANGED <<executed, writeLens>>
  /\ UNCHANGED extVars

\* the timeout timer's callback
TimeoutFire ==
  /\ SessionExists
  /\ timer = "armed"
  /\ settle = "fired"
  /\ wpc = "sleep" => TimeoutDeadline < WakeDeadline
  /\ now' = Max(now, TimeoutDeadline)
  /\ finish(FALSE, TimeoutReason(output), "fired")
  /\ NoteEvent("timer")
  /\ UNCHANGED <<prog, marker, builtAt, mpc, si, ni, totalFailures, exitCode,
                 anyFailed, numLines, strategyName, cmdBytes, startedAt,
                 output, settle, wpc, wi, ptyInput>>
  /\ UNCHANGED <<executed, writeLens>>
  /\ UNCHANGED extVars

\* one iteration of the write strategy: the next ptyProcess.write, which may
\* throw, then the sleep (or the end of the loop)
WriteNext(throws) ==
  IF wi >= Len(writeLens)
    THEN /\ wpc' = "done"
         /\ UNCHANGED <<wi, ptyInput, finished, timer, killCount, resolveCount,
                        result, firstEvent>>
    ELSE IF throws
      THEN /\ wpc' = "failed"
           /\ finish(FALSE, "WRITE_ERROR", "cleared")
           /\ NoteEvent("writeError")
           /\ UNCHANGED <<wi, ptyInput>>
      ELSE /\ wi' = wi + 1
           /\ ptyInput' = ptyInput + writeLens[wi + 1]
           /\ wpc' = IF strategyName = "single-write" THEN "done" ELSE "sleep"
           /\ UNCHANGED <<finished, timer, killCount, resolveCount, result, firstEvent>>

\* the settle timer's callback: writeFn(ptyProcess, cmd) up to its first await
SettleFire(throws) ==
  /\ SessionExists
  /\ settle = "armed"
  /\ settle' = "fired"
  /\ now' = Max(now, startedAt + PTY_SETTLE_MS)
  /\ WriteNext(throws)
  /\ UNCHANGED <<prog, marker, builtAt, mpc, si, ni, totalFailures, exitCode,
                 anyFailed, numLines, strategyName, cmdBytes, startedAt, output>>
  /\ UNCHANGED <<executed, writeLens>>
  /\ UNCHANGED extVars

\* sleep(5) / sleep(10) inside a strategy is over: next loop iteration
WriteWake(throws) ==
  /\ SessionExists
  /\ wpc = "sleep"
  /\ timer = "armed" => WakeDeadline <= TimeoutDeadline
  /\ WriteNext(throws)
  /\ UNCHANGED <<prog, now, marker, builtAt, mpc, si, ni, totalFailures,
                 exitCode, anyFailed, numLines, strategyName, cmdBytes,
                 startedAt, output, settle>>
  /\ UNCHANGED <<executed, writeLens>>
  /\ UNCHANGED extVars

\* ------------------------------------------------------ the shell in the PTY
\* The shell has read the whole command line, its final newline included,
\* and has run it through `echo <marker>`.  A killed shell runs nothing; a
\* shell that blocks or sits at a continuation prompt never takes this step.
PtyShellRun ==
  /\ SessionExists
  /\ killCount = 0
  /\ ~executed
  /\ ptyInput >= cmdBytes
  /\ executed' = TRUE
  /\ UNCHANGED <<prog, now, marker, builtAt, mpc, si, ni, totalFailures,
                 exitCode, anyFailed, numLines, strategyName, cmdBytes,
                 startedAt, output, finished, timer, settle, wpc, wi, ptyInput,
                 killCount, resolveCount, result, firstEvent, writeLens>>
  /\ UNCHANGED extVars

\* --------------------------------------------------------------------- main
\* main's loop body up to `await testNodePty(numLines, strategy)`
MainStart(r, spawnThrows) ==
  /\ prog = "pty"
  /\ mpc = "loop"
  /\ si <= Len(strategies)
  /\ IF spawnThrows
       THEN /\ mpc' = "exited"
            /\ exitCode' = 2
            /\ anyFailed' = TRUE
            /\ UNCHANGED <<marker, builtAt, numLines, strategyName, cmdBytes, startedAt,
                           output, finished, timer, settle, wpc, wi, ptyInput,
                           killCount, resolveCount, result, firstEvent,
                           executed, writeLens>>
       ELSE /\ mpc' = "await"
            /\ numLines' = testSizes[ni]
            /\ strategyName' = strategies[si]
            /\ marker' = buildEchoCommand(testSizes[ni], lineLength, now, r).marker
            /\ cmdBytes' = Len(buildEchoCommand(testSizes[ni], lineLength, now, r).cmd)
            /\ startedAt' = now
            /\ builtAt' = now
            /\ output' = <<>>
            /\ finished' = FALSE
            /\ timer' = "armed"
            /\ settle' = "armed"
            /\ wpc' = "idle"
            /\ wi' = 0
            /\ ptyInput' = 0
            /\ killCount' = 0
            /\ resolveCount' = 0
            /\ result' = NoResult
            /\ firstEvent' = "none"
            /\ executed' = FALSE
            /\ writeLens' = WritePlan(strategies[si],
                                      buildEchoCommand(testSizes[ni], lineLength, now, r).cmd)
            /\ UNCHANGED <<exitCode, anyFailed>>
  /\ UNCHANGED <<prog, now, si, ni, totalFailures>>
  /\ UNCHANGED extVars

\* the session that main has collected is followed no further: nothing in
\* main refers to its closure again
SessionDropped ==
  /\ numLines' = 0
  /\ strategyName' = "none"
  /\ cmdBytes' = 0
  /\ startedAt' = 0
  /\ output' = <<>>
  /\ finished' = FALSE
  /\ timer' = "none"
  /\ settle' = "none"
  /\ wpc' = "idle"
  /\ wi' = 0
  /\ ptyInput' = 0
  /\ killCount' = 0
  /\ resolveCount' = 0
  /\ result' = NoResult
  /\ firstEvent' = "none"
  /\ executed' = FALSE
  /\ writeLens' = <<>>

\* the await returns: count the failure, advance the two loops
MainCollect ==
  /\ prog = "pty"
  /\ mpc = "await"
  /\ resolveCount > 0
  /\ totalFailures' = IF result.success THEN totalFailures ELSE totalFailures + 1
  /\ anyFailed' = (anyFailed \/ ~result.success)
  /\ IF ni < Len(testSizes)
       THEN ni' = ni + 1 /\ si' = si
       ELSE ni' = 1 /\ si' = si + 1
  /\ mpc' = "loop"
  /\ SessionDropped
  /\ UNCHANGED <<prog, now, marker, builtAt, exitCode>>
  /\ UNCHANGED extVars

\* main exiting with `totalFailures > 1 ? 1 : 0`
MainExit_OffByOne ==
  /\ prog = "pty"
  /\ mpc = "loop"
  /\ si > Len(strategies)
  /\ exitCode' = IF totalFailures > 1 THEN 1 ELSE 0
  /\ mpc' = "exited"
  /\ UNCHANGED <<prog, now, marker, builtAt, si, ni, totalFailures, anyFailed,
                 numLines, strategyName, cmdBytes, startedAt, output, finished,
                 timer, settle, wpc, wi, ptyInput, killCount, resolveCount,
                 result, firstEvent>>
  /\ UNCHANGED <<executed, writeLens>>
  /\ UNCHANGED extVars

\* process.exit(totalFailures > 0 ? 1 : 0)
MainExit ==
  /\ prog = "pty"
  /\ mpc = "loop"
  /\ si > Len(strategies)
  /\ exitCode' = IF totalFailures > 0 THEN 1 ELSE 0
  /\ mpc' = "exited"
  /\ UNCHANGED <<prog, now, marker, builtAt, si, ni, totalFailures, anyFailed,
                 numLines, strategyName, cmdBytes, startedAt, output, finished,
                 timer, settle, wpc, wi, ptyInput, killCount, resolveCount,
                 result, firstEvent>>
  /\ UNCHANGED <<executed, writeLens>>
  /\ UNCHANGED extVars

\* ----------------------------------------------------------------- buildTest
\* a marker built without Date.now()
ExtMarker_NoTime(n, ts, r) ==
  <<"D", "O", "N", "E", "_">> \o ToStr(n) \o <<"_">> \o RandomSuffix(r)

ExtMarker(n, ts, r) ==
  <<"D", "O", "N", "E", "_">> \o ToStr(n) \o <<"_">> \o ToStr(ts) \o <<"_">>
    \o RandomSuffix(r)

\* marker and tmpFile of buildTest; the file name is kept as the two values
\* that vary within a run (process.pid does not).  Only the file of the test
\* case in progress is followed on disk.
buildTest(n, ts, r) ==
  [marker |-> ExtMarker(n, ts, r), tmpFile |-> [numLines |-> n, ts |-> ts]]

\* ------------------------------------------------------------- runSingleTest
\* `return` or `throw` of runSingleTest: the finally block, then (return
\* only) runAllTests' bookkeeping up to `await sleep(BETWEEN_MS)`
Finally_NoDispose ==
  /\ terminal' = terminal
  /\ file' = "absent"

Finally ==
  /\ terminal' = "disposed"
  /\ file' = "absent"

ReturnResult(res) ==
  /\ Finally
  /\ lastResult' = res
  /\ passed' = IF res.success THEN passed + 1 ELSE passed
  /\ failed' = IF res.success THEN failed ELSE failed + 1
  /\ epc' = "between"
  /\ UNCHANGED runOutcome

\* the polling loop from its condition to the next await or to the return,
\* entered at time t with start time st
PollLoop(t, st) ==
  IF t - st < EXT_TIMEOUT_MS
    THEN IF file = "marked"
           THEN ReturnResult([success |-> TRUE, reason |-> "OK"])
           ELSE /\ epc' = "pollSleep"
                /\ UNCHANGED <<terminal, file, lastResult, passed, failed, runOutcome>>
    ELSE IF file # "absent"
           THEN ReturnResult([success |-> FALSE, reason |-> "TIMEOUT (partial file)"])
           ELSE ReturnResult([success |-> FALSE, reason |-> "TIMEOUT (no output file)"])

\* runAllTests calls runSingleTest(numLines): buildTest, unlink of a
\* pre-existing file, createTerminal, up to `await sleep(SETTLE_MS)`
TestStart(r) ==
  /\ prog = "ext"
  /\ epc = "iterate"
  /\ sizeIdx <= Len(extTestSizes)
  /\ LET test == buildTest(extTestSizes[sizeIdx], now, r) IN
       /\ marker' = test.marker
       /\ tmpFile' = test.tmpFile
  /\ builtAt' = now
  /\ file' = "absent"
  /\ terminal' = "open"
  /\ shell' = "ready"
  /\ markerInTime' = FALSE
  /\ epc' = "settle"
  /\ UNCHANGED <<prog, now, sizeIdx, iter, passed, failed, failures, results,
                 summary, runOutcome, startTime, lastResult>>
  /\ UNCHANGED ptyVars

\* the settle sleep is over: sendText (which may throw), startTime, first
\* pass of the loop.  A shell stuck at `quote>` is one that takes no further
\* step.
SettleWake(throws) ==
  /\ prog = "ext"
  /\ epc = "settle"
  /\ now' = now + EXT_SETTLE_MS
  /\ IF throws
       THEN /\ Finally
            /\ epc' = "finished"
            /\ runOutcome' = "rejected"
            /\ UNCHANGED <<shell, startTime, lastResult, passed, failed>>
       ELSE /\ shell' = "running"
            /\ startTime' = now'
            /\ PollLoop(now', now')
  /\ UNCHANGED <<prog, marker, builtAt, sizeIdx, iter, failures, results,
                 summary, tmpFile, markerInTime>>
  /\ UNCHANGED ptyVars

\* sleep(300) is over: next pass of the loop
PollWake ==
  /\ prog = "ext"
  /\ epc = "pollSleep"
  /\ now' = now + POLL_MS
  /\ PollLoop(now', startTime)
  /\ UNCHANGED <<prog, marker, builtAt, sizeIdx, iter, failures, results,
                 summary, tmpFile, startTime, shell, markerInTime>>
  /\ UNCHANGED ptyVars

\* --------------------------------------------------------------- runAllTests
\* sleep(BETWEEN_MS) is over: end of the inner loop's body, and of the outer
\* loop's when the iterations are used up (a results entry is kept without
\* its lastResult field)
BetweenWake ==
  /\ prog = "ext"
  /\ epc = "between"
  /\ now' = now + BETWEEN_MS
  /\ IF iter + 1 < iterations
       THEN /\ iter' = iter + 1
            /\ UNCHANGED <<sizeIdx, passed, failed, failures, results>>
       ELSE /\ results' = Append(results, [numLines |-> extTestSizes[sizeIdx],
                                           passed |-> passed, failed |-> failed])
            /\ failures' = failures + failed
            /\ sizeIdx' = sizeIdx + 1
            /\ iter' = 0
            /\ passed' = 0
            /\ failed' = 0
  /\ epc' = "iterate"
  /\ UNCHANGED <<prog, marker, builtAt, summary, runOutcome, tmpFile, startTime,
                 terminal, lastResult, shell, file, markerInTime>>
  /\ UNCHANGED ptyVars

\* run() writing the summary only from the second failure on
RunFinish_Late ==
  /\ prog = "ext"
  /\ epc = "iterate"
  /\ sizeIdx > Len(extTestSizes)
  /\ IF failures > 1
       THEN /\ summary' = [failures |-> failures, results |-> results]
            /\ runOutcome' = "rejected"
       ELSE /\ summary' = summary
            /\ runOutcome' = IF failures > 0 THEN "rejected" ELSE "resolved"
  /\ epc' = "finished"
  /\ UNCHANGED <<prog, now, marker, builtAt, sizeIdx, iter, passed, failed,
                 failures, results, tmpFile, startTime, terminal, lastResult,
                 shell, file, markerInTime>>
  /\ UNCHANGED ptyVars

\* runAllTests returns { failures, results }; the rest of run()
RunFinish ==
  /\ prog = "ext"
  /\ epc = "iterate"
  /\ sizeIdx > Len(extTestSizes)
  /\ IF failures > 0
       THEN /\ summary' = [failures |-> failures, results |-> results]
            /\ runOutcome' = "rejected"
       ELSE /\ summary' = summary
            /\ runOutcome' = "resolved"
  /\ epc' = "finished"
  /\ UNCHANGED <<prog, now, marker, builtAt, sizeIdx, iter, passed, failed,
                 failures, results, tmpFile, startTime, terminal, lastResult,
                 shell, file, markerInTime>>
  /\ UNCHANGED ptyVars

\* ------------------------------------------------- the shell of the terminal
\* The shell runs `echo '...' | wc -c > tmpFile && echo marker >> tmpFile`
\* on its own schedule: during a poll sleep (one of the first EarlyWindows
\* or the last before the timeout), or after terminal.dispose() returned,
\* until the terminal's process is gone.
LastWindow == (EXT_TIMEOUT_MS - 1) \div POLL_MS
Window == (now - startTime) \div POLL_MS

ShellMayAct ==
  /\ prog = "ext"
  /\ \/ epc = "pollSleep" /\ (Window < EarlyWindows \/ Window = LastWindow)
     \/ terminal = "disposed" /\ epc # "finished"

ShellCreateFile ==
  /\ ShellMayAct
  /\ shell = "running"
  /\ shell' = "counted"
  /\ file' = "partial"
  /\ UNCHANGED <<prog, now, marker, builtAt, epc, sizeIdx, iter, passed, failed,
                 failures, results, summary, runOutcome, tmpFile, startTime,
                 terminal, lastResult, markerInTime>>
  /\ UNCHANGED ptyVars

ShellAppendMarker ==
  /\ ShellMayAct
  /\ shell = "counted"
  /\ shell' = "done"
  /\ file' = "marked"
  /\ markerInTime' = (epc = "pollSleep" /\ now - startTime < EXT_TIMEOUT_MS)
  /\ UNCHANGED <<prog, now, marker, builtAt, epc, sizeIdx, iter, passed, failed,
                 failures, results, summary, runOutcome, tmpFile, startTime,
                 terminal, lastResult>>
  /\ UNCHANGED ptyVars

\* the disposed terminal's process is gone
ShellExit ==
  /\ prog = "ext"
  /\ terminal = "disposed"
  /\ epc # "finished"
  /\ shell \notin {"none", "dead"}
  /\ shell' = "dead"
  /\ UNCHANGED <<prog, now, marker, builtAt, epc, sizeIdx, iter, passed, failed,
                 failures, results, summary, runOutcome, tmpFile, startTime,
                 terminal, lastResult, file, markerInTime>>
  /\ UNCHANGED ptyVars

Tokens == {"text", "quote>", "heredoc>", "marker"}

ExtIdle ==
  /\ epc = "iterate"
  /\ sizeIdx = 1
  /\ iter = 0
  /\ passed = 0
  /\ failed = 0
  /\ failures = 0
  /\ results = <<>>
  /\ summary = NoSummary
  /\ runOutcome = "pending"
  /\ tmpFile = NoFile
  /\ startTime = 0
  /\ terminal = "none"
  /\ lastResult = NoTestResult
  /\ shell = "none"
  /\ file = "absent"
  /\ markerInTime = FALSE

PtyIdle ==
  /\ mpc = "loop"
  /\ si = 1
  /\ ni = 1
  /\ totalFailures = 0
  /\ exitCode = -1
  /\ anyFailed = FALSE
  /\ numLines = 0
  /\ strategyName = "none"
  /\ cmdBytes = 0
  /\ startedAt = 0
  /\ output = <<>>
  /\ finished = FALSE
  /\ timer = "none"
  /\ settle = "none"
  /\ wpc = "idle"
  /\ wi = 0
  /\ ptyInput = 0
  /\ killCount = 0
  /\ resolveCount = 0
  /\ result = NoResult
  /\ firstEvent = "none"
  /\ executed = FALSE
  /\ writeLens = <<>>

\* either reproducer, just started
Init ==
  /\ prog \in {"pty", "ext"}
  /\ now = 0
  /\ marker = NoMarker
  /\ builtAt = 0
  /\ PtyIdle
  /\ ExtIdle

Next ==
  \/ \E r \in 1..MaxRnd, t \in BOOLEAN : MainStart(r, t)
  \/ MainCollect
  \/ MainExit
  \/ \E tok \in Tokens : OnData(tok)
  \/ TimeoutFire
  \/ \E t \in BOOLEAN : SettleFire(t)
  \/ \E t \in BOOLEAN : WriteWake(t)
  \/ PtyShellRun
  \/ \E r \in 1..MaxRnd : TestStart(r)
  \/ \E t \in BOOLEAN : SettleWake(t)
  \/ PollWake
  \/ BetweenWake
  \/ RunFinish
  \/ ShellCreateFile
  \/ ShellAppendMarker
  \/ ShellExit

Spec == Init /\ [][Next]_vars

\* Timers fire and the event loop runs every continuation that is ready:
\* weak fairness for the steps of the two programs.  The PTY, its shell and
\* the terminal's shell get none: they may stay silent or block forever.
Fairness ==
  /\ WF_vars(\E r \in 1..MaxRnd, t \in BOOLEAN : MainStart(r, t))
  /\ WF_vars(MainCollect)
  /\ WF_vars(MainExit)
  /\ WF_vars(TimeoutFire)
  /\ WF_vars(\E t \in BOOLEAN : SettleFire(t))
  /\ WF_vars(\E t \in BOOLEAN : WriteWake(t))
  /\ WF_vars(\E r \in 1..MaxRnd : TestStart(r))
  /\ WF_vars(\E t \in BOOLEAN : SettleWake(t))
  /\ WF_vars(PollWake)
  /\ WF_vars(BetweenWake)
  /\ WF_vars(RunFinish)

FairSpec == Init /\ [][Next]_vars /\ Fairness

\* ===================================================================== claims

\* C1: when main() exits, the status is 0 if and only if every test run
\* returned success, a status of 0 comes only after all strategy x size runs,
\* and any failed run gives a non-zero status.
C1_ExitStatus ==
  (prog = "pty" /\ mpc = "exited") =>
    /\ exitCode >= 0
    /\ (exitCode = 0) <=> ~anyFailed
    /\ exitCode = 0 => si > Len(strategies)

C1_Witness ==
  prog = "pty" /\ mpc = "exited" /\ exitCode = 1 /\ totalFailures = 1

\* C2 (as stated): a resolved test case is a success exactly when the marker
\* was observed in the output before the timeout timer fired, and it is
\* resolved once.
MarkerBeforeTimer == Includes(output, "marker") /\ timer # "fired"

C2_Original ==
  (prog = "pty" /\ resolveCount > 0) =>
    /\ resolveCount = 1
    /\ result.success <=> MarkerBeforeTimer

\* C2 (amended): the outcome is decided exactly once by the first of three
\* events: the marker observed gives success 'OK', the timeout timer gives
\* a TIMEOUT or STUCK failure, a throwing write gives a WRITE_ERROR failure;
\* later events neither change the result nor resolve a second time.
C2_FirstEventDecides ==
  (prog = "pty" /\ resolveCount > 0) =>
    /\ resolveCount = 1
    /\ firstEvent # "none"
    /\ firstEvent = "marker" => result.success /\ result.reason = "OK"
    /\ firstEvent = "timer" =>
         ~result.success /\ result.reason \in {"TIMEOUT", "STUCK (quote>)", "STUCK (heredoc>)"}
    /\ firstEvent = "writeError" => ~result.success /\ result.reason = "WRITE_ERROR"

\* the marker arrives after the timeout has decided the test case
C2_Witness ==
  prog = "pty" /\ firstEvent = "timer" /\ Includes(output, "marker") /\ resolveCount = 1

\* C3: a resolved testNodePty has killed its PTY process exactly once, and
\* a runSingleTest that returned or threw has disposed its terminal.
C3_TornDown ==
  /\ (prog = "pty" /\ resolveCount > 0) => killCount = 1
  /\ (prog = "pty" /\ mpc = "await" /\ resolveCount = 0) => killCount = 0
  /\ (prog = "ext" /\ epc \in {"between", "iterate", "finished"}) => terminal # "open"

\* runSingleTest threw from sendText
C3_Witness ==
  prog = "ext" /\ epc = "finished" /\ runOutcome = "rejected" /\ sizeIdx = 1
    /\ terminal = "disposed"

\* C4: once runSingleTest has returned or thrown, the test case's result
\* file does not exist, however late the shell writes it.
C4_NoLeftoverFile ==
  (prog = "ext" /\ epc \in {"between", "iterate", "finished"}) => file = "absent"

\* C5: in runAllTests no test case is started for a size after an iteration
\* of that size has failed.
C5_SkipAfterFailure ==
  (prog = "ext" /\ epc \in {"settle", "pollSleep"}) => failed = 0

\* C6 (as stated): when runAllTests has returned and run() completed, the
\* JSON summary has been written, with failures or without.
RunCompleted == prog = "ext" /\ epc = "finished" /\ sizeIdx > Len(extTestSizes)

C6_Original == RunCompleted => summary # NoSummary

\* C6 (amended): when runAllTests has returned and run() completed, the JSON
\* summary holding the failure count and the per-size results has been
\* written if at least one test case failed, and no summary has been written
\* if all passed.
RECURSIVE SumFailed(_)
SumFailed(rs) == IF Len(rs) = 0 THEN 0 ELSE rs[1].failed + SumFailed(Tail(rs))

C6_SummaryOnFailure ==
  RunCompleted =>
    /\ Len(results) = Len(extTestSizes)
    /\ IF SumFailed(results) > 0
         THEN summary = [failures |-> SumFailed(results), results |-> results]
         ELSE summary = NoSummary

C6_Witness == RunCompleted /\ summary # NoSummary /\ summary.failures = 1

\* C7: no two test cases of a run have the same marker: every marker that
\* buildTest or buildEchoCommand builds carries a Date.now() strictly later
\* than the marker built before it and differs from that marker, repeated
\* iterations of one line count included.
Built ==
  \/ prog = "pty" /\ mpc = "loop" /\ mpc' = "await"
  \/ prog = "ext" /\ epc = "iterate" /\ epc' = "settle"

C7_MarkersDiffer ==
  [][(Built /\ marker # NoMarker) => (marker' # marker /\ builtAt' > builtAt)]_vars

\* the second iteration of a line count has built its marker
C7_Witness == prog = "ext" /\ epc = "settle" /\ iter = 1 /\ marker # NoMarker

\* C8: runSingleTest returns success if and only if the marker reached the
\* result file before TIMEOUT_MS had elapsed since the command was sent.
C8_SuccessIffMarkerInTime ==
  (prog = "ext" /\ epc = "between") => (lastResult.success <=> markerInTime)

\* C9: a run that times out is classified STUCK exactly when the tail of
\* the captured output is a continuation prompt at the moment of the timeout.
AtContinuationPrompt(out) ==
  Len(out) > 0 /\ out[Len(out)] \in {"quote>", "heredoc>"}

C9_StuckIffAtPrompt ==
  [][(prog = "pty" /\ timer = "armed" /\ timer' = "fired") =>
       ((result'.reason # "TIMEOUT") <=> AtContinuationPrompt(output))]_vars

\* C10: when a write strategy has run to its end, the data passed to
\* ptyProcess.write, concatenated in order, is cmd exactly.
C10_WritesEqualCmd ==
  (prog = "pty" /\ wpc = "done") => Written(strategyName, Cmd, wi) = Cmd

\* C11: testNodePty reports success only after the shell has executed the
\* whole command through its final echo of the marker; the terminal's echo
\* of the typed command never produces a success by itself.
C11_SuccessMeansExecuted ==
  (prog = "pty" /\ resolveCount > 0 /\ result.success) => executed

\* C12: whatever the PTY and the shells do, every call of testNodePty is
\* eventually resolved, every runSingleTest eventually leaves its polling
\* loop, and main() and run() eventually terminate, having run all their
\* test cases unless pty.spawn or sendText threw.
Terminated ==
  \/ prog = "pty" /\ mpc = "exited"
  \/ prog = "ext" /\ epc = "finished"

\* a testNodePty call awaited by main, or a runSingleTest call in its
\* settle sleep or polling loop
TestRunning ==
  \/ prog = "pty" /\ mpc = "await"
  \/ prog = "ext" /\ epc \in {"settle", "pollSleep"}

\* the promise is resolved, or runSingleTest has returned or thrown
TestDone ==
  \/ prog = "pty" /\ resolveCount > 0
  \/ prog = "ext" /\ epc \in {"between", "finished"}

AllCasesRun ==
  \/ prog = "pty" /\ si > Len(strategies)
  \/ prog = "ext" /\ sizeIdx > Len(extTestSizes)

Threw ==
  \/ prog = "pty" /\ exitCode = 2
  \/ prog = "ext" /\ runOutcome = "rejected" /\ sizeIdx <= Len(extTestSizes)

WriteIssued == wi' = wi + 1 \/ (wpc # "failed" /\ wpc' = "failed")

C13_NoWriteAfterKill ==
  [][(prog = "pty" /\ killCount > 0) => ~WriteIssued]_vars
====
